---- MODULE Spec2Model ----
(***************************************************************************)
(* The Conan packaging manifest of jsocketpp (conanfile.py): the recipe    *)
(* object `self`, its four lifecycle methods and the steps they delegate   *)
(* to the external CMake driver and to the cmake_layout convention.        *)
(*                                                                         *)
(* The recipe is driven by a caller (the Conan client).  The external      *)
(* calls (cmake_layout, CMake.configure, CMake.build, CMake.install) may   *)
(* return or raise; a raise leaves the enclosing method at once, because   *)
(* the manifest has no try/except.  Constructing the driver, CMake(self),  *)
(* is taken to succeed: the recipe declares the CMakeToolchain generator   *)
(* the constructor depends on.                                             *)
(***************************************************************************)
EXTENDS Integers, Sequences, FiniteSets, TLC

\* Bound on the number of lifecycle-method invocations the caller makes.
MaxCalls == 4

(***************************************************************************)
(* Class attributes of jsocketppConan.                                     *)
(***************************************************************************)
name == "jsocketpp"

version == "0.1.0"

license == "MIT"

author == "Your Name <your@email.com>"

url == "https://github.com/yourusername/jsocketpp"

description == "A modern C++ socket library."

topics == <<"socket", "network", "tcp", "udp", "c++">>

\* Faulty variant of settings: the arch axis forgotten.
settings_no_arch == <<"os", "compiler", "build_type">>

settings == <<"os", "compiler", "build_type", "arch">>

generators == <<"CMakeToolchain", "CMakeDeps">>

\* Faulty variant of exports_sources: the headers directory forgotten.
exports_sources_no_headers == <<"CMakeLists.txt", "src/*">>

exports_sources == <<"CMakeLists.txt", "src/*", "include/*">>

Range(s) == {s[i] : i \in 1..Len(s)}

(***************************************************************************)
(* Inputs the caller supplies: a value for every declared settings axis,   *)
(* and the content of cpp_info.libs before the recipe touches it.          *)
(***************************************************************************)
SettingValues(axis) ==
    CASE axis = "os"         -> {"Linux", "Windows"}
      [] axis = "compiler"   -> {"gcc", "msvc"}
      [] axis = "build_type" -> {"Debug", "Release"}
      [] axis = "arch"       -> {"x86_64", "armv8"}
      [] OTHER               -> {"None"}

AnySettingValue == UNION {SettingValues(a) : a \in Range(settings)}

SettingsInputs ==
    {f \in [Range(settings) -> AnySettingValue] :
        \A a \in Range(settings) : f[a] \in SettingValues(a)}

InitialLibs == {<< >>, <<"jsocketpp">>}

\* How an external call ends: it returns, or it raises.
Outcomes == {"ok", "error"}

VARIABLES
    self,    \* the recipe object: its attributes, settings, folders, cpp_info
    calls,   \* lifecycle methods invoked so far, each with how it returned
    log,     \* driver steps invoked so far, each with its instance and outcome
    cmakes   \* number of CMake driver instances constructed so far

vars == <<self, calls, log, cmakes>>

Init ==
    /\ \E s \in SettingsInputs, l \in InitialLibs :
         self = [name            |-> name,
                 version         |-> version,
                 license         |-> license,
                 author          |-> author,
                 url             |-> url,
                 description     |-> description,
                 topics          |-> topics,
                 generators      |-> generators,
                 exports_sources |-> exports_sources,
                 settings        |-> s,
                 folders         |-> "unset",
                 cpp_info        |-> [libs |-> l]]
    /\ calls = << >>
    /\ log = << >>
    /\ cmakes = 0

\* The record of a lifecycle method that has returned (ret = "ok") or raised.
Call(m, r) == [method |-> m, ret |-> r]

\* The record of step s invoked on driver instance c by the running method.
Invoke(c, s, r) == [call |-> Len(calls) + 1, cmake |-> c, step |-> s, result |-> r]

(***************************************************************************)
(* def layout(self): cmake_layout(self)                                    *)
(***************************************************************************)
layout ==
    \E r \in Outcomes :
        /\ self' = IF r = "ok" THEN [self EXCEPT !.folders = "cmake_layout"] ELSE self
        /\ calls' = Append(calls, Call("layout", r))
        /\ UNCHANGED <<log, cmakes>>

(***************************************************************************)
(* Faulty variants of build, used to show that the properties below depend *)
(* on what build does.                                                     *)
(***************************************************************************)
\* cmake.configure() and cmake.build() written in the wrong order.
build_compiles_first ==
    LET cmake == cmakes + 1 IN
    \E r1 \in Outcomes :
        /\ cmakes' = cmake
        /\ IF r1 = "error"
           THEN /\ log' = Append(log, Invoke(cmake, "build", r1))
                /\ calls' = Append(calls, Call("build", "error"))
           ELSE \E r2 \in Outcomes :
                /\ log' = log \o <<Invoke(cmake, "build", r1),
                                   Invoke(cmake, "configure", r2)>>
                /\ calls' = Append(calls, Call("build", r2))
        /\ UNCHANGED self

\* cmake.configure() wrapped in a try/except that swallows its failure.
build_swallows_configure_error ==
    LET cmake == cmakes + 1 IN
    \E r1 \in Outcomes, r2 \in Outcomes :
        /\ cmakes' = cmake
        /\ log' = log \o <<Invoke(cmake, "configure", r1), Invoke(cmake, "build", r2)>>
        /\ calls' = Append(calls, Call("build", r2))
        /\ UNCHANGED self

(***************************************************************************)
(* def build(self): cmake = CMake(self); cmake.configure(); cmake.build()  *)
(***************************************************************************)
build ==
    LET cmake == cmakes + 1 IN
    \E r1 \in Outcomes :
        /\ cmakes' = cmake
        /\ IF r1 = "error"
           THEN /\ log' = Append(log, Invoke(cmake, "configure", r1))
                /\ calls' = Append(calls, Call("build", "error"))
           ELSE \E r2 \in Outcomes :
                /\ log' = log \o <<Invoke(cmake, "configure", r1),
                                   Invoke(cmake, "build", r2)>>
                /\ calls' = Append(calls, Call("build", r2))
        /\ UNCHANGED self

(***************************************************************************)
(* Faulty variants of package.                                             *)
(***************************************************************************)
\* cmake.install() wrapped in a try/except that swallows its failure.
package_swallows_install_error ==
    LET cmake == cmakes + 1 IN
    \E r \in Outcomes :
        /\ cmakes' = cmake
        /\ log' = Append(log, Invoke(cmake, "install", r))
        /\ calls' = Append(calls, Call("package", "ok"))
        /\ UNCHANGED self

\* A validation added in front: raise unless a build() has returned before.
package_requires_build ==
    LET cmake == cmakes + 1
        built == \E i \in 1..Len(calls) : calls[i] = Call("build", "ok")
    IN  IF built
        THEN \E r \in Outcomes :
                /\ cmakes' = cmake
                /\ log' = Append(log, Invoke(cmake, "install", r))
                /\ calls' = Append(calls, Call("package", r))
                /\ UNCHANGED self
        ELSE /\ calls' = Append(calls, Call("package", "error"))
             /\ UNCHANGED <<self, log, cmakes>>

\* The library list assigned in package() instead of package_info().
package_sets_libs ==
    LET cmake == cmakes + 1 IN
    \E r \in Outcomes :
        /\ cmakes' = cmake
        /\ log' = Append(log, Invoke(cmake, "install", r))
        /\ calls' = Append(calls, Call("package", r))
        /\ self' = IF r = "ok" THEN [self EXCEPT !.cpp_info.libs = <<"socket">>] ELSE self

(***************************************************************************)
(* def package(self): cmake = CMake(self); cmake.install()                 *)
(***************************************************************************)
package ==
    LET cmake == cmakes + 1 IN
    \E r \in Outcomes :
        /\ cmakes' = cmake
        /\ log' = Append(log, Invoke(cmake, "install", r))
        /\ calls' = Append(calls, Call("package", r))
        /\ UNCHANGED self

(***************************************************************************)
(* Faulty variant of package_info: self.cpp_info.libs.append("socket").    *)
(***************************************************************************)
package_info_appends ==
    /\ self' = [self EXCEPT !.cpp_info.libs = Append(@, "socket")]
    /\ calls' = Append(calls, Call("package_info", "ok"))
    /\ UNCHANGED <<log, cmakes>>

(***************************************************************************)
(* def package_info(self): self.cpp_info.libs = ["socket"]                 *)
(***************************************************************************)
package_info ==
    /\ self' = [self EXCEPT !.cpp_info.libs = <<"socket">>]
    /\ calls' = Append(calls, Call("package_info", "ok"))
    /\ UNCHANGED <<log, cmakes>>

(***************************************************************************)
(* A caller that invokes the methods in any order, any number of times.    *)
(***************************************************************************)
Next ==
    \/ Len(calls) < MaxCalls /\ layout
    \/ Len(calls) < MaxCalls /\ build
    \/ Len(calls) < MaxCalls /\ package
    \/ Len(calls) < MaxCalls /\ package_info

Spec == Init /\ [][Next]_vars

(***************************************************************************)
(* The caller of the packaging lifecycle: layout, build, package and       *)
(* package_info, in that order, each entered only when the previous one    *)
(* returned without error.                                                 *)
(***************************************************************************)
Returned(m) ==
    /\ calls # << >>
    /\ calls[Len(calls)].method = m
    /\ calls[Len(calls)].ret = "ok"

LifecycleNext ==
    \/ calls = << >> /\ layout
    \/ Returned("layout") /\ build
    \/ Returned("build") /\ package
    \/ Returned("package") /\ package_info

LifecycleSpec == Init /\ [][LifecycleNext]_vars

(***************************************************************************)
(* Vocabulary of the properties.                                           *)
(***************************************************************************)
\* The driver steps invoked during the i-th method call, in order.
MethodSteps(i) == SelectSeq(log, LAMBDA e : e.call = i)

StepNames(i) == [k \in 1..Len(MethodSteps(i)) |-> MethodSteps(i)[k].step]

Called(m) == \E i \in 1..Len(calls) : calls[i].method = m

Metadata(o) == <<o.name, o.version, o.license, o.author, o.url, o.description, o.topics>>

C2_LibsIsSocket ==
    Called("package_info") => self.cpp_info.libs = <<"socket">>

\* package_info() has run twice: the second time the list was not empty.
C2_Witness ==
    /\ Cardinality({i \in 1..Len(calls) : calls[i].method = "package_info"}) >= 2
    /\ self.cpp_info.libs = <<"socket">>

(***************************************************************************)
(* C3: a driver step that fails makes the enclosing method end in error,   *)
(* is not retried, and is the last driver step of that method; if          *)
(* configure fails in build(), compile is not invoked.                     *)
(***************************************************************************)
C3_FailurePropagates ==
    \A k \in 1..Len(log) :
        log[k].result = "error" =>
            /\ calls[log[k].call].ret = "error"
            /\ \A j \in 1..Len(log) :
                  (j > k) => log[j].call # log[k].call
            /\ \A j \in 1..Len(log) :
                  (j # k /\ log[j].call = log[k].call) => log[j].step # log[k].step
            /\ (log[k].step = "configure") => StepNames(log[k].call) = <<"configure">>

\* A build() whose configure failed, followed by a later method call.
C3_Witness ==
    \E k \in 1..Len(log) :
        /\ log[k].step = "configure"
        /\ log[k].result = "error"
        /\ Len(calls) > log[k].call

(***************************************************************************)
(* C4: the exported source paths are exactly the three patterns            *)
(* CMakeLists.txt, src/* and include/*, in every state of the lifecycle:   *)
(* no method adds to or removes from them.                                 *)
(***************************************************************************)
C4_ExportsSources ==
    /\ Len(self.exports_sources) = 3
    /\ Range(self.exports_sources) = {"CMakeLists.txt", "src/*", "include/*"}

\* Every lifecycle method has been called.
C4_Witness ==
    /\ \A m \in {"layout", "build", "package", "package_info"} : Called(m)
    /\ Cardinality(Range(self.exports_sources)) = 3

(***************************************************************************)
(* C5: build configurations are keyed by exactly the four axes os,         *)
(* compiler, build_type and arch, in every state of the lifecycle.         *)
(***************************************************************************)
C5_SettingsAxes ==
    /\ DOMAIN self.settings = {"os", "compiler", "build_type", "arch"}
    /\ Cardinality(DOMAIN self.settings) = 4

\* A Windows/msvc/Debug/armv8 configuration after the caller's last call.
C5_Witness ==
    /\ Len(calls) = MaxCalls
    /\ self.settings = [os |-> "Windows", compiler |-> "msvc",
                        build_type |-> "Debug", arch |-> "armv8"]

(***************************************************************************)
(* C6: when the caller follows the lifecycle order, install is invoked     *)
(* only after a compile that succeeded, compile only after a configure     *)
(* that succeeded, and the library list is set only after an install that  *)
(* succeeded.                                                              *)
(***************************************************************************)
C6_LifecycleOrder ==
    /\ \A k \in 1..Len(log) :
          /\ log[k].step = "install" =>
                \E j \in 1..(k - 1) : log[j].step = "build" /\ log[j].result = "ok"
          /\ log[k].step = "build" =>
                \E j \in 1..(k - 1) : log[j].step = "configure" /\ log[j].result = "ok"
    /\ \A i \in 1..Len(calls) :
          calls[i].method = "package_info" =>
              \E k \in 1..Len(log) :
                  /\ log[k].step = "install"
                  /\ log[k].result = "ok"
                  /\ log[k].call < i

\* The whole lifecycle has run and the library list has been set.
C6_Witness ==
    /\ Len(calls) = 4
    /\ calls[4].method = "package_info"
    /\ self.cpp_info.libs = <<"socket">>
    /\ Len(log) = 3

C8_FrameStep ==
    LET m == calls'[Len(calls')].method IN
    /\ Len(calls') = Len(calls) + 1
    /\ Metadata(self') = Metadata(self)
    /\ m = "layout" =>
          /\ log' = log
          /\ cmakes' = cmakes
          /\ self' = [self EXCEPT !.folders = self'.folders]
    /\ m \in {"build", "package"} => self'.cpp_info.libs = self.cpp_info.libs
    /\ m = "package_info" => log' = log /\ cmakes' = cmakes

C8_Frame == [][C8_FrameStep]_vars

\* Every lifecycle method has been called, and driver steps were invoked.
C8_Witness ==
    /\ \A m \in {"layout", "build", "package", "package_info"} : Called(m)
    /\ Len(log) >= 2
    /\ self.folders = "cmake_layout"

====
